---- MODULE Spec2Model ----
(***************************************************************************)
(* Model of dapc/cov_utils.py: matrix_toeplitzify, rectify_spectrum and    *)
(* calc_cov_from_data.  Tensors are functions over 0-based index ranges,   *)
(* numbers are exact rationals <<numerator, denominator>> in lowest terms  *)
(* with a positive denominator; <<0, 0>> is the non-finite value (NaN)     *)
(* that a float division 0/0 produces.                                     *)
(***************************************************************************)
EXTENDS Integers, Sequences, FiniteSets

VARIABLES pc, T, d, cov, once, twice, epsilon, verbose, cov_in, printed,
          xs_pad, src_mask, xs_alt, toeplitzify, reg, cov_est, cov_alt

vars == <<pc, T, d, cov, once, twice, epsilon, verbose, cov_in, printed,
          xs_pad, src_mask, xs_alt, toeplitzify, reg, cov_est, cov_alt>>

(***************************************************************************)
(* Bounds of the checked input space.                                      *)
(***************************************************************************)
\* matrix_toeplitzify: the matrix side T*d is at most MaxDim.
MaxDim == 4

\* matrix_toeplitzify: the input entries are integers in -MaxEntry..MaxEntry.
MaxEntry == 1

\* rectify_spectrum: the matrix side is at most MaxSide and its entries are
\* integers in -MaxCovEntry..MaxCovEntry.
MaxSide == 2

MaxCovEntry == 1

\* calc_cov_from_data: a batch holds at most MaxSteps timesteps in all
\* (B * maxlen <= MaxSteps), the scenarios of the specification apart.
MaxSteps == 4

\* Placeholder for a variable that a run does not use.
None == "none"

(***************************************************************************)
(* Exact rational arithmetic (the "exact arithmetic" of the float code).   *)
(***************************************************************************)
Abs(x) == IF x < 0 THEN -x ELSE x

RECURSIVE GCD(_, _)
GCD(a, b) == IF b = 0 THEN a ELSE GCD(b, a % b)

NaN == <<0, 0>>

IsNaN(a) == a[2] = 0

Norm(n, m) ==
    IF m = 0 THEN NaN
    ELSE LET s == IF m < 0 THEN -1 ELSE 1
             g == GCD(Abs(n), Abs(m))
         IN  <<(s * n) \div g, (s * m) \div g>>

RInt(k) == <<k, 1>>

Zero == RInt(0)

RAdd(a, b) ==
    IF IsNaN(a) \/ IsNaN(b) THEN NaN
    ELSE LET g == GCD(a[2], b[2])
         IN  Norm(a[1] * (b[2] \div g) + b[1] * (a[2] \div g), (a[2] \div g) * b[2])

RNeg(a) == <<-a[1], a[2]>>

RSub(a, b) == RAdd(a, RNeg(b))

RMul(a, b) ==
    IF IsNaN(a) \/ IsNaN(b) THEN NaN
    ELSE Norm(a[1] * b[1], a[2] * b[2])

\* Float division: 0/0 is NaN.  Every divisor in the modelled code is a
\* count; when it is zero the dividend is a sum weighted by the same zero
\* mask, hence 0 or NaN, so +-inf (x/0 with x # 0) does not arise.
RDiv(a, b) ==
    IF IsNaN(a) \/ IsNaN(b) \/ b[1] = 0 THEN NaN
    ELSE Norm(a[1] * b[2], a[2] * b[1])

RLess(a, b) == ~IsNaN(a) /\ ~IsNaN(b) /\ a[1] * b[2] < b[1] * a[2]

RLeq(a, b) == ~IsNaN(a) /\ ~IsNaN(b) /\ a[1] * b[2] <= b[1] * a[2]

\* Sum of f[lo], ..., f[hi] (torch.sum along one dimension).
RECURSIVE RSum(_, _, _)
RSum(f, lo, hi) == IF lo > hi THEN Zero ELSE RAdd(f[lo], RSum(f, lo + 1, hi))

Idx(n) == 0 .. (n - 1)

\* The tensor f, computed once and stored (a function expression is
\* otherwise re-evaluated at every use of one of its entries).
Stored(f) == IF f = f THEN f ELSE f

Side(M) == Cardinality(DOMAIN M)

\* torch.eye(n)
Eye(n) == [i \in Idx(n) |-> [j \in Idx(n) |-> IF i = j THEN RInt(1) ELSE Zero]]

(***************************************************************************)
(* matrix_toeplitzify(cov, T, d), line by line.                            *)
(***************************************************************************)
\* Mutation: line 88 left out.
SymmetrizeSkipped(M) == M

\* line 88: cov = (cov + cov.t()) / 2.0
Symmetrize(M) ==
    [i \in DOMAIN M |-> [j \in DOMAIN M |->
        RDiv(RAdd(M[i][j], M[j][i]), RInt(2))]]

\* line 90: cov.reshape(T, d, T, d).permute(1, 3, 0, 2).reshape(d*d, T*T)
\* Row a*d+b, column t1*T+t2 holds entry (a, b) of block (t1, t2).
BlocksFlat(S, TT, dd) ==
    [r \in Idx(dd * dd) |-> [f \in Idx(TT * TT) |->
        S[(f \div TT) * dd + (r \div dd)][(f % TT) * dd + (r % dd)]]]

\* line 91: torch.cat([cov, zeros([d*d, T])], 1)
PadZeros(R, TT, dd) ==
    [r \in Idx(dd * dd) |-> [f \in Idx(TT * TT + TT) |->
        IF f < TT * TT THEN R[r][f] ELSE Zero]]

\* line 93: ones([T+1, T]).triu().reshape(1, (T+1)*T): flat position f is
\* row f div T, column f mod T of the (T+1) x T upper triangle.
IndicatorFlat(TT) ==
    [f \in Idx((TT + 1) * TT) |-> IF (f % TT) >= (f \div TT) THEN 1 ELSE 0]

\* lines 94-95: x.unfold(1, T+1, T+1): window w, position p is flat
\* position w*(T+1)+p; there are T windows of T+1 positions.
Unfold(row, TT) ==
    [w \in Idx(TT) |-> [p \in Idx(TT + 1) |-> row[w * (TT + 1) + p]]]

\* line 96: the masked mean over the windows, for positions 0..T-1.
LagAverage(cu, iu, TT) ==
    [p \in Idx(TT) |->
        RDiv(RSum([w \in Idx(TT) |-> RMul(cu[w][p], RInt(iu[w][p]))], 0, TT - 1),
             RSum([w \in Idx(TT) |-> RInt(iu[w][p])], 0, TT - 1))]

\* line 97: torch.cat([avg, zeros], 2) * ind_unfold
Spread(avg, iu, TT) ==
    [w \in Idx(TT) |-> [p \in Idx(TT + 1) |->
        RMul(IF p < TT THEN avg[p] ELSE Zero, RInt(iu[w][p]))]]

\* Mutation: the windows read back with stride T instead of T+1.
RefoldStrideT(sp, TT) ==
    [t1 \in Idx(TT) |-> [t2 \in Idx(TT) |-> sp[t1][t2]]]

\* line 98: avg.reshape(d*d, (T+1)*T)[:, :(T*T)] reshaped to [.., T, T]
Refold(sp, TT) ==
    [t1 \in Idx(TT) |-> [t2 \in Idx(TT) |->
        sp[(t1 * TT + t2) \div (TT + 1)][(t1 * TT + t2) % (TT + 1)]]]

\* Mutation: .triu() left out of line 100.
TriuOnes(TT) ==
    [t1 \in Idx(TT) |-> [t2 \in Idx(TT) |-> 1]]

\* line 100: ones([T, T]).triu()
Triu(TT) ==
    [t1 \in Idx(TT) |-> [t2 \in Idx(TT) |-> IF t2 >= t1 THEN 1 ELSE 0]]

matrix_toeplitzify(M, TT, dd) ==
    LET S    == Stored(Symmetrize(M))
        P    == Stored(PadZeros(BlocksFlat(S, TT, dd), TT, dd))
        iu   == Stored(Unfold(IndicatorFlat(TT), TT))
        \* avg[a*d+b][t1][t2], lines 94-98
        avg  == Stored([r \in Idx(dd * dd) |->
                    Refold(Spread(Stored(LagAverage(Unfold(P[r], TT), iu, TT)),
                                  iu, TT), TT)])
        ind  == Stored(Triu(TT))
        \* line 102: (avg + avg.permute(1, 0, 3, 2)) / (ind + ind.transpose(2, 3))
        res  == Stored([r \in Idx(dd * dd) |-> [t1 \in Idx(TT) |-> [t2 \in Idx(TT) |->
                    RDiv(RAdd(avg[r][t1][t2],
                              avg[(r % dd) * dd + (r \div dd)][t2][t1]),
                         RInt(ind[t1][t2] + ind[t2][t1]))]]])
    IN  \* line 103: result.permute(2, 0, 3, 1).reshape(T*d, T*d)
        [i \in Idx(TT * dd) |-> [j \in Idx(TT * dd) |->
            res[(i % dd) * dd + (j % dd)][i \div dd][j \div dd]]]

(***************************************************************************)
(* Runs of matrix_toeplitzify: the input is any T, d with T*d <= MaxDim    *)
(* and a square matrix, symmetric or not, with at most two non-zero cells  *)
(* (any entry in one, 1 in the other) or a dense ramp; the function is     *)
(* applied once and then to its own output.  (The function is linear in    *)
(* the matrix, so the matrices with one non-zero cell already span its     *)
(* whole input space.)                                                     *)
(***************************************************************************)
Entries == (-MaxEntry) .. MaxEntry

Shapes == {s \in (1 .. MaxDim) \X (1 .. MaxDim) : s[1] * s[2] <= MaxDim}

SparseMatrices(n) ==
    {[i \in Idx(n) |-> [j \in Idx(n) |->
        RInt(IF <<i, j>> = p THEN a ELSE IF <<i, j>> = q THEN b ELSE 0)]] :
        p \in Idx(n) \X Idx(n), q \in Idx(n) \X Idx(n), a \in Entries, b \in {0, 1}}

RampMatrices(n) ==
    {[i \in Idx(n) |-> [j \in Idx(n) |-> RInt(a * (n * i + j) + b * i * i)]] :
        a \in Entries, b \in Entries}

InputMatrices(n) == SparseMatrices(n) \cup RampMatrices(n)

RectUnused ==
    epsilon = None /\ verbose = None /\ cov_in = None /\ printed = None

ToepUnused == once = None /\ twice = None

CovUnused ==
    /\ xs_pad = None /\ src_mask = None /\ xs_alt = None
    /\ toeplitzify = None /\ reg = None /\ cov_est = None /\ cov_alt = None

InitToep ==
    /\ pc = "start"
    /\ \E s \in Shapes :
         /\ T = s[1]
         /\ d = s[2]
         /\ cov \in InputMatrices(s[1] * s[2])
    /\ ToepUnused
    /\ RectUnused
    /\ CovUnused

\* result = matrix_toeplitzify(cov, T, d)
Toeplitzify ==
    /\ pc = "start"
    /\ once' = matrix_toeplitzify(cov, T, d)
    /\ pc' = "once"
    /\ UNCHANGED <<T, d, cov, twice, epsilon, verbose, cov_in, printed, xs_pad,
                   src_mask, xs_alt, toeplitzify, reg, cov_est, cov_alt>>

\* matrix_toeplitzify(result, T, d)
ToeplitzifyAgain ==
    /\ pc = "once"
    /\ twice' = matrix_toeplitzify(once, T, d)
    /\ pc' = "twice"
    /\ UNCHANGED <<T, d, cov, once, epsilon, verbose, cov_in, printed, xs_pad,
                   src_mask, xs_alt, toeplitzify, reg, cov_est, cov_alt>>

NextToep == Toeplitzify \/ ToeplitzifyAgain

SpecToep == InitToep /\ [][NextToep]_vars

(***************************************************************************)
(* Properties of matrix_toeplitzify.                                       *)
(***************************************************************************)
\* Entry (a, b) of the d x d block (t1, t2) of M.
Block(M, dd, t1, t2) ==
    [a \in Idx(dd) |-> [b \in Idx(dd) |-> M[t1 * dd + a][t2 * dd + b]]]

TransposeOf(M) == [i \in DOMAIN M |-> [j \in DOMAIN M |-> M[j][i]]]

IsSymmetric(M) == \A i \in DOMAIN M : \A j \in DOMAIN M : M[i][j] = M[j][i]

IsBlockToeplitz(M, TT, dd) ==
    \A t1 \in Idx(TT) : \A t2 \in Idx(TT) : \A u1 \in Idx(TT) : \A u2 \in Idx(TT) :
        (t1 - t2 = u1 - u2) => Block(M, dd, t1, t2) = Block(M, dd, u1, u2)

IsSquare(M, n) ==
    /\ DOMAIN M = Idx(n)
    /\ \A i \in Idx(n) : DOMAIN M[i] = Idx(n)

\* C4: the output of matrix_toeplitzify has the shape of its input, equals
\* its own transpose, and its d x d blocks (t1, t2) and (t1', t2') are equal
\* whenever t1 - t2 = t1' - t2'.
C4_SymmetricBlockToeplitz ==
    pc \in {"once", "twice"} =>
        /\ IsSquare(once, T * d)
        /\ once = TransposeOf(once)
        /\ IsBlockToeplitz(once, T, d)

\* The input was not symmetric, had several blocks of several entries, and
\* the function has returned.
C4_Witness ==
    /\ pc = "once"
    /\ T >= 2 /\ d >= 2
    /\ ~IsSymmetric(cov)
    /\ once # cov

\* C5: applying matrix_toeplitzify to its own output returns that output
\* entry for entry, and a symmetric block-Toeplitz input is returned as is.
C5_Idempotent ==
    /\ pc = "twice" => twice = once
    /\ (pc = "once" /\ IsSymmetric(cov) /\ IsBlockToeplitz(cov, T, d)) => once = cov

\* The second application has acted on a non-zero matrix that the first one
\* had changed.
C5_Witness ==
    /\ pc = "twice"
    /\ T >= 2
    /\ once # cov
    /\ \E i \in DOMAIN once : \E j \in DOMAIN once : once[i][j] # Zero

\* The mean over s in 0..T-k-1 of entry (a, b) of block (s, s+k) of
\* S = (M + M^T)/2.
LagMean(M, TT, dd, k, a, b) ==
    RDiv(RSum([s \in Idx(TT - k) |->
                  RDiv(RAdd(M[s * dd + a][(s + k) * dd + b],
                            M[(s + k) * dd + b][s * dd + a]), RInt(2))],
              0, TT - k - 1),
         RInt(TT - k))

\* C8: output block (t1, t1+k) is the mean of the T-k blocks (s, s+k) of the
\* symmetrized input, and output block (t1+k, t1) is its transpose.
C8_LagMeans ==
    pc \in {"once", "twice"} =>
        \A k \in Idx(T) : \A t1 \in Idx(T - k) : \A a \in Idx(d) : \A b \in Idx(d) :
            /\ once[t1 * d + a][(t1 + k) * d + b] = LagMean(cov, T, d, k, a, b)
            /\ once[(t1 + k) * d + b][t1 * d + a] = LagMean(cov, T, d, k, a, b)

\* A lag with several blocks to average, next to a below-diagonal block
\* that is not zero and must stay out of the average.
C8_Witness ==
    /\ pc = "once"
    /\ T >= 3
    /\ cov[1][0] # Zero
    /\ cov[0][1] = Zero
    /\ once[0][1] # Zero

(***************************************************************************)
(* Determinants and positive semi-definiteness, exactly.                   *)
(***************************************************************************)
\* The least common multiple of a set of positive integers.
RECURSIVE LcmOf(_)
LcmOf(S) ==
    IF S = {} THEN 1
    ELSE LET x == CHOOSE y \in S : TRUE
             l == LcmOf(S \ {x})
         IN  (x \div GCD(x, l)) * l

IsFinite(M) == \A i \in DOMAIN M : \A j \in DOMAIN M[i] : ~IsNaN(M[i][j])

\* The integer matrix q * M, q > 0 the common denominator of the entries of
\* the finite matrix M: same signs of all minors as M.
Cleared(M) ==
    LET q == LcmOf({M[i][j][2] : i \in DOMAIN M, j \in DOMAIN M})
    IN  [i \in DOMAIN M |-> [j \in DOMAIN M |-> M[i][j][1] * (q \div M[i][j][2])]]

\* N without row 0 and column j.
Minor(N, n, j) ==
    [i \in Idx(n - 1) |-> [k \in Idx(n - 1) |-> N[i + 1][IF k < j THEN k ELSE k + 1]]]

\* Determinant of an integer matrix: Laplace expansion along row 0, the
\* terms of columns j..n-1.
RECURSIVE IntDet(_, _)
RECURSIVE Laplace(_, _, _)
IntDet(N, n) == IF n = 0 THEN 1 ELSE Laplace(N, n, 0)

Laplace(N, n, j) ==
    IF j = n THEN 0
    ELSE (IF j % 2 = 0 THEN 1 ELSE -1) * N[0][j] * IntDet(Minor(N, n, j), n - 1)
         + Laplace(N, n, j + 1)

\* The Schur complement of entry (0, 0) in M, M[0][0] # 0.
Schur(M, n) ==
    [i \in Idx(n - 1) |-> [j \in Idx(n - 1) |->
        RSub(M[i + 1][j + 1], RDiv(RMul(M[i + 1][0], M[0][j + 1]), M[0][0]))]]

\* M without row 0 and column 0.
Trailing(M, n) ==
    [i \in Idx(n - 1) |-> [j \in Idx(n - 1) |-> M[i + 1][j + 1]]]

\* Symmetric elimination: M >= 0 iff M[0][0] > 0 and the Schur complement
\* is >= 0, or M[0][0] = 0, row 0 is zero and the trailing block is >= 0.
RECURSIVE Eliminates(_, _)
Eliminates(M, n) ==
    IF n = 0 THEN TRUE
    ELSE IF RLess(M[0][0], Zero) THEN FALSE
    ELSE IF M[0][0] = Zero
         THEN /\ \A j \in Idx(n) : M[0][j] = Zero /\ M[j][0] = Zero
              /\ Eliminates(Stored(Trailing(M, n)), n - 1)
         ELSE Eliminates(Stored(Schur(M, n)), n - 1)

\* The finite symmetric matrix M is positive semi-definite (v^T M v >= 0
\* for every vector v).
IsPSD(M) == IsFinite(M) /\ Eliminates(M, Side(M))

IsSingular(M) == IntDet(Cleared(M), Side(M)) = 0

\* M - m * I
ShiftDown(M, m) ==
    [i \in DOMAIN M |-> [j \in DOMAIN M |->
        IF i = j THEN RSub(M[i][j], m) ELSE M[i][j]]]

\* m is the least eigenvalue of the symmetric matrix M: M - m*I is positive
\* semi-definite and singular.
IsMinEig(M, m) ==
    /\ IsSingular(ShiftDown(M, m))
    /\ IsPSD(ShiftDown(M, m))

(***************************************************************************)
(* rectify_spectrum(cov, epsilon, verbose)                                 *)
(***************************************************************************)
\* Every eigenvalue lies within the largest absolute row sum of 0
\* (Gershgorin); a rational eigenvalue of an integer matrix is an integer.
RowBound(M) ==
    LET n == Side(M)
        row(i) == RSum([j \in Idx(n) |-> RInt(Abs(M[i][j][1]))], 0, n - 1)[1]
    IN  CHOOSE r \in {row(i) : i \in Idx(n)} : \A i \in Idx(n) : row(i) <= r

EigCandidates(M) == {RInt(m) : m \in (-RowBound(M)) .. RowBound(M)}

\* line 119: np.min(sp.linalg.eigvalsh(cov))
min_eigvalsh(M) == CHOOSE m \in EigCandidates(M) : IsMinEig(M, m)

\* Mutation: the tolerance forgotten in the shift.
DiagonalShiftNoEpsilon(min_eig, eps) == RNeg(min_eig)

\* line 121: (-min_eig + epsilon)
DiagonalShift(min_eig, eps) == RAdd(RNeg(min_eig), eps)

\* line 121: cov += shift * torch.eye(cov.shape[0])
AddScaledEye(M, shift) ==
    [i \in DOMAIN M |-> [j \in DOMAIN M |->
        RAdd(M[i][j], RMul(shift, Eye(Side(M))[i][j]))]]

\* The symmetric integer matrices of side n, by their upper triangle.
SymmetricMatrices(n) ==
    {[i \in Idx(n) |-> [j \in Idx(n) |->
        RInt(IF i <= j THEN u[<<i, j>>] ELSE u[<<j, i>>])]] :
        u \in [{c \in Idx(n) \X Idx(n) : c[1] <= c[2]} ->
                  (-MaxCovEntry) .. MaxCovEntry]}

\* Those whose least eigenvalue is rational, so that eigvalsh is exact.
RectifyInputs(n) ==
    {M \in SymmetricMatrices(n) : \E m \in EigCandidates(M) : IsMinEig(M, m)}

\* epsilon > 0.  (The default 1e-6 is left out: its powers exceed 32-bit
\* integers in the determinants.)
Epsilons == {<<1, 10>>, <<1, 2>>, <<1, 1>>}

InitRect ==
    /\ pc = "start"
    /\ \E n \in 1 .. MaxSide : cov \in RectifyInputs(n)
    /\ cov_in = cov
    /\ epsilon \in Epsilons
    /\ verbose = None
    /\ printed = FALSE
    /\ T = None /\ d = None
    /\ ToepUnused
    /\ CovUnused

\* rectify_spectrum(cov, epsilon, v), lines 119-123
RectifySpectrum ==
    /\ pc = "start"
    /\ \E v \in BOOLEAN :
         LET min_eig == min_eigvalsh(cov)
         IN  /\ verbose' = v
             /\ IF RLess(min_eig, Zero)
                THEN /\ cov' = AddScaledEye(cov, DiagonalShift(min_eig, epsilon))
                     /\ printed' = v
                ELSE UNCHANGED <<cov, printed>>
    /\ pc' = "done"
    /\ UNCHANGED <<T, d, once, twice, epsilon, cov_in, xs_pad, src_mask,
                   xs_alt, toeplitzify, reg, cov_est, cov_alt>>

NextRect == RectifySpectrum

SpecRect == InitRect /\ [][NextRect]_vars

\* C1: after rectify_spectrum returns, the least eigenvalue of cov is at
\* least epsilon, that is, cov - epsilon*I is positive semi-definite.
C1_MinEigAtLeastEpsilon ==
    pc = "done" => IsPSD(ShiftDown(cov, epsilon))

BatchOf(xs) == Side(xs)

MaxlenOf(xs) == Side(xs[0])

DimOf(xs) == Side(xs[0][0])

\* src_mask.sum(1)
ValidCount(mask, b) == Cardinality({l \in DOMAIN mask[b] : mask[b][l]})

\* Mutation: the doubled window of the error message applied to the wrong
\* side of the comparison.
TooShortHalved(mask, TT) == \E b \in DOMAIN mask : 2 * ValidCount(mask, b) <= TT

\* Mutation: < for <=.
TooShortStrict(mask, TT) == \E b \in DOMAIN mask : ValidCount(mask, b) < TT

\* line 176: torch.min(src_mask.sum(1)) <= T
TooShort(mask, TT) == \E b \in DOMAIN mask : ValidCount(mask, b) <= TT

\* The number of windows of one sequence, unfold(1, T*d, d) of maxlen*d.
WindowsPerRow(L, TT) == L - TT + 1

\* lines 182 and 186: xs_pad.view([B, maxlen*d]).unfold(1, T*d, d), reshaped
\* to [-1, T*d]: row b*W+s, position q is flat position s*d+q of sequence b.
LaggedRows(xs, TT) ==
    LET L == MaxlenOf(xs)
        dd == DimOf(xs)
        W == WindowsPerRow(L, TT)
    IN  [r \in Idx(BatchOf(xs) * W) |-> [q \in Idx(TT * dd) |->
            xs[r \div W][((r % W) * dd + q) \div dd][((r % W) * dd + q) % dd]]]

\* Mutation: .any for .all.
MaskFloatAny(mask, TT) ==
    LET W == WindowsPerRow(Side(mask[0]), TT)
    IN  [r \in Idx(Side(mask) * W) |->
            IF \E t \in Idx(TT) : mask[r \div W][(r % W) + t] THEN 1 ELSE 0]

\* lines 184-185: src_mask.unfold(1, T, 1).all(dim=2).float().flatten()
MaskFloat(mask, TT) ==
    LET W == WindowsPerRow(Side(mask[0]), TT)
    IN  [r \in Idx(Side(mask) * W) |->
            IF \A t \in Idx(TT) : mask[r \div W][(r % W) + t] THEN 1 ELSE 0]

\* torch.sum(mask_float)
CountValid(mf) == RSum([r \in DOMAIN mf |-> RInt(mf[r])], 0, Side(mf) - 1)

\* line 187: the masked mean of the lagged rows
LaggedMean(rows, mf, n) ==
    [q \in Idx(n) |->
        RDiv(RSum([r \in DOMAIN rows |-> RMul(rows[r][q], RInt(mf[r]))],
                  0, Side(rows) - 1),
             CountValid(mf))]

\* line 189: xs_with_lags - xs_with_lags_mean
Centered(rows, mean, n) ==
    [r \in DOMAIN rows |-> [q \in Idx(n) |-> RSub(rows[r][q], mean[q])]]

\* Mutation: the unbiased divisor n - 1.
MaskedCovUnbiased(xc, mf, n) ==
    [p \in Idx(n) |-> [q \in Idx(n) |->
        RDiv(RSum([r \in DOMAIN xc |->
                      RMul(RMul(xc[r][p], RInt(mf[r])), xc[r][q])],
                  0, Side(xc) - 1),
             RSub(CountValid(mf), RInt(1)))]]

\* line 191: torch.mul(xs_with_lags, mask_float).t().matmul(xs_with_lags)
\*           / torch.sum(mask_float)
MaskedCov(xc, mf, n) ==
    [p \in Idx(n) |-> [q \in Idx(n) |->
        RDiv(RSum([r \in DOMAIN xc |->
                      RMul(RMul(xc[r][p], RInt(mf[r])), xc[r][q])],
                  0, Side(xc) - 1),
             CountValid(mf))]]

\* Mutation: the flag ignored.
ToeplitzifyAlways(flag, M, TT, dd) == matrix_toeplitzify(M, TT, dd)

\* lines 192-193
ToeplitzifyIf(flag, M, TT, dd) ==
    IF flag THEN matrix_toeplitzify(M, TT, dd) ELSE M

\* lines 195-196
AddReg(M, rg) ==
    IF RLess(Zero, rg) THEN AddScaledEye(M, rg) ELSE M

\* lines 181-198, after the length check has passed
CovEstimate(xs, mask, TT, flag, rg) ==
    LET n    == TT * DimOf(xs)
        rows == Stored(LaggedRows(xs, TT))
        mf   == Stored(MaskFloat(mask, TT))
        xc   == Stored(Centered(rows, Stored(LaggedMean(rows, mf, n)), n))
    IN  AddReg(ToeplitzifyIf(flag, Stored(MaskedCov(xc, mf, n)), TT, DimOf(xs)), rg)

(***************************************************************************)
(* Runs of calc_cov_from_data.  The covariance is a quadratic function of  *)
(* the data, so it is fixed by its values on the series with one or two    *)
(* non-zero entries; every boolean mask is tried, padding-style or not.    *)
(* The scenarios of the specification are added as they are written.       *)
(***************************************************************************)
\* The feature dimensions d that are tried.
FeatureDims == {1, 2}

\* <<B, maxlen, d>>
SeriesShapes ==
    {s \in (1 .. MaxSteps) \X (1 .. MaxSteps) \X FeatureDims :
        s[1] * s[2] <= MaxSteps}

SparseSeries(s) ==
    LET cells == Idx(s[1]) \X Idx(s[2]) \X Idx(s[3])
    IN  {[b \in Idx(s[1]) |-> [l \in Idx(s[2]) |-> [j \in Idx(s[3]) |->
            RInt((IF <<b, l, j>> = p THEN 1 ELSE 0)
                 + (IF <<b, l, j>> = q THEN e ELSE 0))]]] :
            p \in cells, q \in cells, e \in {0, 1}}

Masks(s) == [Idx(s[1]) -> [Idx(s[2]) -> BOOLEAN]]

\* B=1, L=6, d=1, X = [1,2,3,4,5,6], mask all true, T=2
RampScenario ==
    [xs   |-> [b \in Idx(1) |-> [l \in Idx(6) |-> [j \in Idx(1) |-> RInt(l + 1)]]],
     mask |-> [b \in Idx(1) |-> [l \in Idx(6) |-> TRUE]],
     T    |-> 2]

\* B=2, L=10, d=3, valid lengths [5, 8], T=5
ShortScenario ==
    [xs   |-> [b \in Idx(2) |-> [l \in Idx(10) |-> [j \in Idx(3) |-> RInt(l + j)]]],
     mask |-> [b \in Idx(2) |-> [l \in Idx(10) |-> l < (IF b = 0 THEN 5 ELSE 8)]],
     T    |-> 5]

\* B=1, L=5, d=1, mask [1,0,1,0,1], T=2: three valid timesteps, no two of
\* them adjacent.
AlternatingScenario ==
    [xs   |-> [b \in Idx(1) |-> [l \in Idx(5) |-> [j \in Idx(1) |-> RInt(l + 1)]]],
     mask |-> [b \in Idx(1) |-> [l \in Idx(5) |-> l % 2 = 0]],
     T    |-> 2]

Scenarios == {RampScenario, ShortScenario, AlternatingScenario}

\* reg >= 0
Regs == {Zero, <<1, 2>>}

InitCov ==
    /\ pc = "start"
    /\ \/ \E s \in SeriesShapes :
            /\ xs_pad \in SparseSeries(s)
            /\ src_mask \in Masks(s)
            /\ T \in 1 .. s[2]
       \/ \E c \in Scenarios :
            /\ xs_pad = c.xs
            /\ src_mask = c.mask
            /\ T = c.T
    /\ d = DimOf(xs_pad)
    /\ cov = None
    /\ xs_alt = None /\ toeplitzify = None /\ reg = None
    /\ cov_est = None /\ cov_alt = None
    /\ ToepUnused
    /\ RectUnused

\* calc_cov_from_data(xs_pad, src_mask, T, flag, rg), lines 171-198
CalcCov(flag, rg) ==
    /\ pc = "start"
    /\ IF TooShort(src_mask, T)
       THEN \* lines 176-179: raise ValueError, before flag and rg are read
            /\ pc' = "raised"
            /\ UNCHANGED <<toeplitzify, reg, cov_est>>
       ELSE /\ pc' = "done"
            /\ toeplitzify' = flag
            /\ reg' = rg
            /\ cov_est' = CovEstimate(xs_pad, src_mask, T, flag, rg)
    /\ UNCHANGED <<T, d, cov, once, twice, epsilon, verbose, cov_in, printed,
                   xs_pad, src_mask, xs_alt, cov_alt>>

\* Timestep l of sequence b lies in a window whose T timesteps are all valid.
Covered(mask, TT, b, l) ==
    \E s \in Idx(Side(mask[b]) - TT + 1) :
        /\ s <= l /\ l < s + TT
        /\ \A t \in s .. (s + TT - 1) : mask[b][t]

\* xs with another value at every timestep outside the valid windows.
Garbled(xs, mask, TT) ==
    [b \in DOMAIN xs |-> [l \in DOMAIN xs[b] |-> [j \in DOMAIN xs[b][l] |->
        IF Covered(mask, TT, b, l) THEN xs[b][l][j]
        ELSE RAdd(xs[b][l][j], RInt(1 + l + 2 * j + 3 * b))]]]

\* A second call with the same mask, T, toeplitzify and reg, on data that
\* differs from xs_pad at the timesteps outside the valid windows.
CalcCovAlt ==
    /\ pc = "done"
    /\ \E b \in DOMAIN src_mask : \E l \in DOMAIN src_mask[b] :
           ~Covered(src_mask, T, b, l)
    /\ xs_alt' = Garbled(xs_pad, src_mask, T)
    /\ cov_alt' = CovEstimate(xs_alt', src_mask, T, toeplitzify, reg)
    /\ pc' = "compared"
    /\ UNCHANGED <<T, d, cov, once, twice, epsilon, verbose, cov_in, printed,
                   xs_pad, src_mask, toeplitzify, reg, cov_est>>

NextCov ==
    \/ \E flag \in BOOLEAN : \E rg \in Regs : CalcCov(flag, rg)
    \/ CalcCovAlt

SpecCov == InitCov /\ [][NextCov]_vars

(***************************************************************************)
(* Properties of calc_cov_from_data.                                       *)
(***************************************************************************)
\* The least number of valid timesteps of a sequence.
MinValidLength(mask) ==
    LET counts == {ValidCount(mask, b) : b \in DOMAIN mask}
    IN  CHOOSE m \in counts : \A c \in counts : m <= c

\* C3: the call raises exactly when the least per-sequence number of valid
\* timesteps is <= T, and a call that raises returns no matrix at all; the
\* example B=2, L=10, d=3, valid lengths [5, 8], T=5 raises.
C3_RaisesIffTooShort ==
    /\ pc = "raised" =>
           /\ MinValidLength(src_mask) <= T
           /\ cov_est = None /\ cov_alt = None
    /\ pc \in {"done", "compared"} =>
           /\ MinValidLength(src_mask) > T
           /\ IsSquare(cov_est, T * d)
    /\ (pc # "start" /\ src_mask = ShortScenario.mask /\ T = ShortScenario.T) =>
           pc = "raised"

\* The example of the specification has raised.
C3_Witness ==
    /\ pc = "raised"
    /\ xs_pad = ShortScenario.xs
    /\ src_mask = ShortScenario.mask
    /\ T = 5
    /\ {ValidCount(src_mask, b) : b \in DOMAIN src_mask} = {5, 8}

\* The windows <<b, s>> whose T timesteps s..s+T-1 are all valid.
ValidWindows(mask, TT) ==
    {w \in (DOMAIN mask) \X Idx(Side(mask[0]) - TT + 1) :
        \A t \in w[2] .. (w[2] + TT - 1) : mask[w[1]][t]}

\* Component p of the T*d-vector of window w.
WindowEntry(xs, w, p) == xs[w[1]][w[2] + (p \div DimOf(xs))][p % DimOf(xs)]

RECURSIVE RSumOver(_, _)
RSumOver(f, S) ==
    IF S = {} THEN Zero
    ELSE LET x == CHOOSE y \in S : TRUE
         IN  RAdd(f[x], RSumOver(f, S \ {x}))

\* (1/n) * sum over the valid windows w of (x_w[p] - mu[p]) * (x_w[q] - mu[q]),
\* mu the mean of the valid windows, n their number (0/0 when there is none).
EmpiricalCov(xs, mask, TT) ==
    LET V  == ValidWindows(mask, TT)
        n  == RInt(Cardinality(V))
        mu == Stored([p \in Idx(TT * DimOf(xs)) |->
                  RDiv(RSumOver([w \in V |-> WindowEntry(xs, w, p)], V), n)])
    IN  [p \in Idx(TT * DimOf(xs)) |-> [q \in Idx(TT * DimOf(xs)) |->
            RDiv(RSumOver([w \in V |->
                              RMul(RSub(WindowEntry(xs, w, p), mu[p]),
                                   RSub(WindowEntry(xs, w, q), mu[q]))], V),
                 n)]]

AllTrue(mask) == \A b \in DOMAIN mask : \A l \in DOMAIN mask[b] : mask[b][l]

\* C6: with toeplitzify=False and reg=0 the result is the empirical
\* covariance of the valid windows about their own mean, divisor n; with an
\* all-true mask the windows are all B*(L-T+1) of them; for X = [1..6], T=2
\* every entry of the 2x2 result is 2.
C6_EmpiricalCovariance ==
    (pc = "done" /\ toeplitzify = FALSE /\ reg = Zero) =>
        /\ cov_est = EmpiricalCov(xs_pad, src_mask, T)
        /\ AllTrue(src_mask) =>
               Cardinality(ValidWindows(src_mask, T))
                   = BatchOf(xs_pad) * (MaxlenOf(xs_pad) - T + 1)
        /\ (xs_pad = RampScenario.xs /\ src_mask = RampScenario.mask /\ T = 2) =>
               cov_est = [p \in Idx(2) |-> [q \in Idx(2) |-> RInt(2)]]

\* Two features, a mask that rules some windows out, several valid windows
\* and a result that is not zero.
C6_Witness ==
    /\ pc = "done" /\ toeplitzify = FALSE /\ reg = Zero
    /\ d = 2 /\ T >= 2
    /\ ~AllTrue(src_mask)
    /\ Cardinality(ValidWindows(src_mask, T)) >= 2
    /\ \E p \in DOMAIN cov_est : \E q \in DOMAIN cov_est :
           ~IsNaN(cov_est[p][q]) /\ cov_est[p][q] # Zero

\* C9 as claimed: whenever the length check passes, the divisor
\* torch.sum(mask_float) is >= 1, for every boolean mask.
C9_SomeWindowValid ==
    pc = "done" => RLeq(RInt(1), CountValid(MaskFloat(src_mask, T)))

\* The true entries of every row are one contiguous run (a padding mask).
ContiguousRuns(mask) ==
    \A b \in DOMAIN mask : \A l1 \in DOMAIN mask[b] : \A l3 \in DOMAIN mask[b] :
        (l1 < l3 /\ mask[b][l1] /\ mask[b][l3]) =>
            \A l2 \in l1 .. l3 : mask[b][l2]

\* C9, amended: whenever the length check passes and the true entries of
\* every mask row are one contiguous run, the divisor is >= 1.
C9_SomeWindowValidContiguous ==
    (pc = "done" /\ ContiguousRuns(src_mask)) =>
        RLeq(RInt(1), CountValid(MaskFloat(src_mask, T)))

\* A padded batch (some timestep masked out) has passed the check.
C9_Witness ==
    /\ pc = "done"
    /\ ContiguousRuns(src_mask)
    /\ ~AllTrue(src_mask)
    /\ T >= 2

\* C2 as claimed (on the inputs with a valid window, where the result is
\* finite): the returned matrix is positive semi-definite.
C2_PositiveSemiDefinite ==
    (pc = "done" /\ ValidWindows(src_mask, T) # {}) => IsPSD(cov_est)

\* C2, amended: with toeplitzify=False (any reg >= 0) and at least one
\* valid window, the returned matrix is positive semi-definite.
C2_PositiveSemiDefiniteUntoeplitzified ==
    (pc = "done" /\ ValidWindows(src_mask, T) # {} /\ toeplitzify = FALSE) =>
        IsPSD(cov_est)

\* An un-toeplitzified result with three lags that is not zero.
C2_Witness ==
    /\ pc = "done" /\ toeplitzify = FALSE
    /\ T >= 3
    /\ ValidWindows(src_mask, T) # {}
    /\ \E p \in DOMAIN cov_est : \E q \in DOMAIN cov_est :
           p # q /\ cov_est[p][q] # Zero

\* C10: two calls with the same mask, T, toeplitzify and reg, whose data
\* agree at every timestep inside a valid window, return equal matrices.
C10_MaskedDataIgnored ==
    pc = "compared" =>
        /\ \A b \in DOMAIN xs_pad : \A l \in DOMAIN xs_pad[b] :
               Covered(src_mask, T, b, l) => xs_alt[b][l] = xs_pad[b][l]
        /\ cov_alt = cov_est

\* The data differed at a masked-out timestep and the result is a finite
\* matrix that is not zero.
C10_Witness ==
    /\ pc = "compared"
    /\ \E b \in DOMAIN xs_pad : \E l \in DOMAIN xs_pad[b] :
           ~src_mask[b][l] /\ xs_alt[b][l] # xs_pad[b][l]
    /\ IsFinite(cov_est)
    /\ \E p \in DOMAIN cov_est : \E q \in DOMAIN cov_est : cov_est[p][q] # Zero

====
